---- MODULE Spec2Model ----
(***************************************************************************)
(* The two TSL2591 example programs (tsl2591.cpp: polling only,            *)
(* tsl2591_interrupt.cpp: polling with the threshold interrupt) as one      *)
(* state machine.  The program counter pc walks through main,               *)
(* configureSensor, advancedRead and getStatus, one step per driver call.   *)
(* The sensor and its driver (Adafruit_TSL2591) are not part of the         *)
(* sources; the tsl_* operators and dev_sample describe them as the         *)
(* specification does.  The sensor samples on its own, whatever the program *)
(* is doing.                                                                *)
(***************************************************************************)
EXTENDS Integers, Sequences, FiniteSets, TLC

VARIABLES
    prog,       \* which of the two programs runs
    present,    \* whether the sensor answers the handshake
    cfgGain,    \* the argument of tsl.setGain in configureSensor
    cfgTiming,  \* the argument of tsl.setTiming in configureSensor
    cfgPersist, \* TLS2591_INT_PERSIST
    pc,         \* position of the (single) thread
    gain,       \* configureSensor: local `gain`
    console,    \* what the function that printed last has printed
    dev,        \* the sensor behind the driver
    cfgCalls,   \* driver calls issued before the polling loop, in order
    iterCalls,  \* calls issued by the current iteration of the polling loop
    obs         \* what an observer of the light samples has seen

vars == <<prog, present, cfgGain, cfgTiming, cfgPersist, pc, gain, console,
          dev, cfgCalls, iterCalls, obs>>

\* what is fixed when the program is built and the board is wired
build == <<prog, present, cfgGain, cfgTiming, cfgPersist>>

\* ------------------------------------------------------------------ values

Programs == {"tsl2591", "tsl2591_int"}

Gains == {"TSL2591_GAIN_LOW", "TSL2591_GAIN_MED", "TSL2591_GAIN_HIGH", "TSL2591_GAIN_MAX"}

Timings == {"TSL2591_INTEGRATIONTIME_100MS", "TSL2591_INTEGRATIONTIME_200MS",
            "TSL2591_INTEGRATIONTIME_300MS", "TSL2591_INTEGRATIONTIME_400MS",
            "TSL2591_INTEGRATIONTIME_500MS", "TSL2591_INTEGRATIONTIME_600MS"}

\* the persistence values the interrupt example names
Persists == {"TSL2591_PERSIST_ANY", "TSL2591_PERSIST_5", "TSL2591_PERSIST_60"}

TLS2591_INT_THRESHOLD_LOWER == 100

TLS2591_INT_THRESHOLD_UPPER == 1500

TLS2591_INT_PERSIST == "TSL2591_PERSIST_60"

\* getStatus: bit 4, ALS interrupt occured
STATUS_ALS == 16

\* getStatus: bit 5, no-persist interrupt occurence
STATUS_NP == 32

\* light levels the full-spectrum channel (CHAN0) takes in the model
FullLevels == {50, 100, 500, 1500, 2000}

\* light levels the infrared channel (CHAN1) takes in the model; lum stays
\* below 2^31
IrLevels == {1000, 32767}

\* the observer stops counting a run of out-of-window samples here
MaxRun == 61

Min(a, b) == IF a < b THEN a ELSE b

\* x & mask != 0, mask a single bit
HasBit(v, mask) == (v \div mask) % 2 = 1

\* v | mask, mask a single bit
OrBit(v, mask) == IF HasBit(v, mask) THEN v ELSE v + mask

\* ------------------------------------------------------- sensor and driver

\* number of consecutive out-of-window samples a persistence value asks for
PersistSamples(p) ==
    CASE p = "TSL2591_PERSIST_ANY" -> 1
      [] p = "TSL2591_PERSIST_5"   -> 5
      [] p = "TSL2591_PERSIST_60"  -> 60

DevInit ==
    [enabled |-> FALSE, gain |-> "TSL2591_GAIN_LOW",
     timing |-> "TSL2591_INTEGRATIONTIME_100MS",
     lower |-> 0, upper |-> 0, persist |-> "TSL2591_PERSIST_ANY", aien |-> FALSE,
     count |-> 0, status |-> 0, chan0 |-> 0, chan1 |-> 0]

tsl_begin(d, found) == IF found THEN [d EXCEPT !.enabled = TRUE] ELSE d

tsl_setGain(d, g) == [d EXCEPT !.gain = g]

tsl_setTiming(d, t) == [d EXCEPT !.timing = t]

tsl_getGain(d) == d.gain

\* top 16 bits IR, bottom 16 bits full spectrum
tsl_getFullLuminosity(d) == d.chan1 * 65536 + d.chan0

tsl_getStatus(d) == d.status

tsl_clearInterrupt(d) == [d EXCEPT !.status = 0]

tsl_registerInterrupt(d, lo, hi, p) ==
    [d EXCEPT !.lower = lo, !.upper = hi, !.persist = p, !.aien = TRUE, !.count = 0]

\* One integration cycle of the sensor ends with CHAN0 = f and CHAN1 = i; np
\* tells whether the sample trips the no-persist interrupt, whose thresholds
\* the programs never write.
dev_sample(d, f, i, np) ==
    LET out == d.aien /\ (f < d.lower \/ f > d.upper)
        cnt == IF out THEN Min(d.count + 1, PersistSamples(d.persist)) ELSE 0
        als == out /\ cnt >= PersistSamples(d.persist)
        s1  == IF als THEN OrBit(d.status, STATUS_ALS) ELSE d.status
        s2  == IF np THEN OrBit(s1, STATUS_NP) ELSE s1
    IN  [d EXCEPT !.chan0 = f, !.chan1 = i, !.count = cnt, !.status = s2]

\* ------------------------------------------------------------ console lines

NoLine ==
    [kind |-> "none", ir |-> 0, full |-> 0, visible |-> 0, luxFull |-> 0, luxIr |-> 0,
     status |-> 0, als |-> FALSE, np |-> FALSE, mult |-> 0, lower |-> 0, upper |-> 0]


ReadingLine(ir, full, visible, luxFull, luxIr) ==
    [NoLine EXCEPT !.kind = "reading", !.ir = ir, !.full = full, !.visible = visible,
                   !.luxFull = luxFull, !.luxIr = luxIr]

StatusLine(s) ==
    [NoLine EXCEPT !.kind = "status", !.status = s,
                   !.als = HasBit(s, STATUS_ALS), !.np = HasBit(s, STATUS_NP)]

NoSensorLine == [NoLine EXCEPT !.kind = "nosensor"]

GainLine(m) == [NoLine EXCEPT !.kind = "gain", !.mult = m]

WindowLine(lo, hi) == [NoLine EXCEPT !.kind = "window", !.lower = lo, !.upper = hi]

\* ---------------------------------------------------------------- observer

\* runLen: length of the current run of samples outside the window;
\* runSeen: a run of the configured persistence has completed since the last
\* clearInterrupt; newLatch: an interrupt has latched since the last status
\* read; lastHit, prevHit: the last status read, and the one before it,
\* reported an interrupt
ObsInit ==
    [runLen |-> 0, runSeen |-> FALSE, newLatch |-> FALSE, lastHit |-> FALSE,
     prevHit |-> FALSE]

LoopPcs == {"loop", "gs_read", "gs_clear", "sleep"}

\* the interrupt has been programmed by configureSensor
Registered == prog = "tsl2591_int" /\ pc \in LoopPcs

\* the observer judges a sample by the thresholds and persistence of the program text
ObsOutside(f) == f < TLS2591_INT_THRESHOLD_LOWER \/ f > TLS2591_INT_THRESHOLD_UPPER

obs_sample(o, f, np) ==
    LET counted == Registered /\ ObsOutside(f)
        len     == IF counted THEN Min(o.runLen + 1, MaxRun) ELSE 0
        run     == counted /\ len >= PersistSamples(cfgPersist)
    IN  [o EXCEPT !.runLen = len, !.runSeen = o.runSeen \/ run,
                  !.newLatch = o.newLatch \/ run \/ np]

\* ------------------------------------------------------------------ program

InitCommon ==
    /\ prog \in Programs
    /\ present \in BOOLEAN
    /\ pc = "start"
    /\ gain = "TSL2591_GAIN_LOW"
    /\ console = NoLine
    /\ dev = DevInit
    /\ cfgCalls = <<>>
    /\ iterCalls = <<>>
    /\ obs = ObsInit

\* the programs as written: 25x gain, 300 ms (tsl2591.cpp) or 100 ms
\* (tsl2591_interrupt.cpp), TSL2591_PERSIST_60
Init ==
    /\ InitCommon
    /\ cfgGain = "TSL2591_GAIN_MED"
    /\ cfgTiming = IF prog = "tsl2591" THEN "TSL2591_INTEGRATIONTIME_300MS"
                                       ELSE "TSL2591_INTEGRATIONTIME_100MS"
    /\ cfgPersist = TLS2591_INT_PERSIST

\* main, handshake failed: prints "No sensor found" and spins in while (1);
\* handshake succeeded: goes on to getID (interrupt example) or configureSensor
main_begin_fallthrough ==
    /\ pc = "start"
    /\ dev' = tsl_begin(dev, present)
    /\ cfgCalls' = Append(cfgCalls, "begin")
    /\ pc' = IF prog = "tsl2591_int" THEN "getid" ELSE "cfg_setgain"
    /\ UNCHANGED <<build, gain, console, iterCalls, obs>>

main_begin ==
    /\ pc = "start"
    /\ dev' = tsl_begin(dev, present)
    /\ cfgCalls' = Append(cfgCalls, "begin")
    /\ console' = IF ~present THEN NoSensorLine ELSE console
    /\ pc' = IF ~present THEN "halt"
             ELSE IF prog = "tsl2591_int" THEN "getid" ELSE "cfg_setgain"
    /\ UNCHANGED <<build, gain, iterCalls, obs>>

\* while (1); after a failed handshake
main_halt ==
    /\ pc = "halt"
    /\ UNCHANGED vars

\* uint8_t id = tsl.getID(); (interrupt example only)
main_getID ==
    /\ pc = "getid"
    /\ cfgCalls' = Append(cfgCalls, "getID")
    /\ pc' = "cfg_setgain"
    /\ UNCHANGED <<build, gain, console, dev, iterCalls, obs>>

configureSensor_setGain ==
    /\ pc = "cfg_setgain"
    /\ dev' = tsl_setGain(dev, cfgGain)
    /\ cfgCalls' = Append(cfgCalls, "setGain")
    /\ pc' = "cfg_settiming"
    /\ UNCHANGED <<build, gain, console, iterCalls, obs>>

configureSensor_setTiming ==
    /\ pc = "cfg_settiming"
    /\ dev' = tsl_setTiming(dev, cfgTiming)
    /\ cfgCalls' = Append(cfgCalls, "setTiming")
    /\ pc' = "cfg_getgain"
    /\ UNCHANGED <<build, gain, console, iterCalls, obs>>

\* switch (gain): the multiplier printed; nothing for a value without a case
GainLabel_noMax(g) ==
    CASE g = "TSL2591_GAIN_LOW"  -> 1
      [] g = "TSL2591_GAIN_MED"  -> 25
      [] g = "TSL2591_GAIN_HIGH" -> 428
      [] OTHER -> 0

GainLabel(g) ==
    CASE g = "TSL2591_GAIN_LOW"  -> 1
      [] g = "TSL2591_GAIN_MED"  -> 25
      [] g = "TSL2591_GAIN_HIGH" -> 428
      [] g = "TSL2591_GAIN_MAX"  -> 9876
      [] OTHER -> 0

\* tsl2591Gain_t gain = tsl.getGain(); switch (gain) ...; in tsl2591.cpp
\* configureSensor returns here
configureSensor_getGain_noClear ==
    /\ pc = "cfg_getgain"
    /\ gain' = tsl_getGain(dev)
    /\ console' = GainLine(GainLabel(gain'))
    /\ cfgCalls' = Append(cfgCalls, "getGain")
    /\ pc' = IF prog = "tsl2591_int" THEN "cfg_register" ELSE "loop"
    /\ UNCHANGED <<build, dev, iterCalls, obs>>

configureSensor_getGain ==
    /\ pc = "cfg_getgain"
    /\ gain' = tsl_getGain(dev)
    /\ console' = GainLine(GainLabel(gain'))
    /\ cfgCalls' = Append(cfgCalls, "getGain")
    /\ pc' = IF prog = "tsl2591_int" THEN "cfg_clear" ELSE "loop"
    /\ UNCHANGED <<build, dev, iterCalls, obs>>

\* tsl.clearInterrupt(); before the interrupt is registered
configureSensor_clearInterrupt ==
    /\ pc = "cfg_clear"
    /\ dev' = tsl_clearInterrupt(dev)
    /\ obs' = [obs EXCEPT !.runSeen = FALSE]
    /\ cfgCalls' = Append(cfgCalls, "clearInterrupt")
    /\ pc' = "cfg_register"
    /\ UNCHANGED <<build, gain, console, iterCalls>>

\* tsl.registerInterrupt(LOWER, UPPER, PERSIST); and the window is printed
configureSensor_registerInterrupt_swapped ==
    /\ pc = "cfg_register"
    /\ dev' = tsl_registerInterrupt(dev, TLS2591_INT_THRESHOLD_UPPER,
                                    TLS2591_INT_THRESHOLD_LOWER, cfgPersist)
    /\ console' = WindowLine(TLS2591_INT_THRESHOLD_LOWER, TLS2591_INT_THRESHOLD_UPPER)
    /\ cfgCalls' = Append(cfgCalls, "registerInterrupt")
    /\ pc' = "loop"
    /\ UNCHANGED <<build, gain, iterCalls, obs>>

configureSensor_registerInterrupt_any ==
    /\ pc = "cfg_register"
    /\ dev' = tsl_registerInterrupt(dev, TLS2591_INT_THRESHOLD_LOWER,
                                    TLS2591_INT_THRESHOLD_UPPER, "TSL2591_PERSIST_ANY")
    /\ console' = WindowLine(TLS2591_INT_THRESHOLD_LOWER, TLS2591_INT_THRESHOLD_UPPER)
    /\ cfgCalls' = Append(cfgCalls, "registerInterrupt")
    /\ pc' = "loop"
    /\ UNCHANGED <<build, gain, iterCalls, obs>>

configureSensor_registerInterrupt ==
    /\ pc = "cfg_register"
    /\ dev' = tsl_registerInterrupt(dev, TLS2591_INT_THRESHOLD_LOWER,
                                    TLS2591_INT_THRESHOLD_UPPER, cfgPersist)
    /\ console' = WindowLine(TLS2591_INT_THRESHOLD_LOWER, TLS2591_INT_THRESHOLD_UPPER)
    /\ cfgCalls' = Append(cfgCalls, "registerInterrupt")
    /\ pc' = "loop"
    /\ UNCHANGED <<build, gain, iterCalls, obs>>


\* ir = lum >> 16, stored in a uint16_t
IrOf_low(l) == l % 65536

IrOf(l) == (l \div 65536) % 65536

\* full = lum & 0xFFFF, stored in a uint16_t
FullOf(l) == l % 65536

\* full-ir: both uint16_t operands are promoted to int (32 bits), so the
\* difference lies in -65535 .. 65535, never overflows, and %d prints it signed
Visible_u16(full, ir) == (full - ir) % 65536

Visible(full, ir) == full - ir

\* advancedRead, followed in main by getStatus (interrupt example) or the delay
advancedRead_noStatus ==
    /\ pc = "loop"
    /\ LET lum  == tsl_getFullLuminosity(dev)
           ir   == IrOf(lum)
           full == FullOf(lum)
       IN  console' = ReadingLine(ir, full, Visible(full, ir), full, ir)
    /\ iterCalls' = <<"getFullLuminosity", "calculateLux">>
    /\ pc' = "sleep"
    /\ UNCHANGED <<build, gain, dev, cfgCalls, obs>>

advancedRead ==
    /\ pc = "loop"
    /\ LET lum  == tsl_getFullLuminosity(dev)
           ir   == IrOf(lum)
           full == FullOf(lum)
       IN  console' = ReadingLine(ir, full, Visible(full, ir), full, ir)
    /\ iterCalls' = <<"getFullLuminosity", "calculateLux">>
    /\ pc' = IF prog = "tsl2591_int" THEN "gs_read" ELSE "sleep"
    /\ UNCHANGED <<build, gain, dev, cfgCalls, obs>>

\* getStatus: uint8_t x = tsl.getStatus(); and the three printf
getStatus_read ==
    /\ pc = "gs_read"
    /\ LET x == tsl_getStatus(dev)
       IN  /\ console' = StatusLine(x)
           /\ obs' = [obs EXCEPT !.newLatch = FALSE, !.lastHit = (x # 0),
                                 !.prevHit = obs.lastHit]
    /\ iterCalls' = Append(iterCalls, "getStatus")
    /\ pc' = "gs_clear"
    /\ UNCHANGED <<build, gain, dev, cfgCalls>>

\* getStatus: tsl.clearInterrupt();
getStatus_clear_missing ==
    /\ pc = "gs_clear"
    /\ obs' = [obs EXCEPT !.runSeen = FALSE]
    /\ iterCalls' = Append(iterCalls, "clearInterrupt")
    /\ pc' = "sleep"
    /\ UNCHANGED <<build, gain, console, dev, cfgCalls>>

getStatus_clear ==
    /\ pc = "gs_clear"
    /\ dev' = tsl_clearInterrupt(dev)
    /\ obs' = [obs EXCEPT !.runSeen = FALSE]
    /\ iterCalls' = Append(iterCalls, "clearInterrupt")
    /\ pc' = "sleep"
    /\ UNCHANGED <<build, gain, console, cfgCalls>>

\* thread_sleep_for(500); and the loop starts over
main_sleep ==
    /\ pc = "sleep"
    /\ iterCalls' = Append(iterCalls, "thread_sleep_for")
    /\ pc' = "loop"
    /\ UNCHANGED <<build, gain, console, dev, cfgCalls, obs>>

\* the sensor finishes an integration cycle
Sample ==
    /\ dev.enabled
    /\ \E f \in FullLevels, i \in IrLevels, np \in BOOLEAN :
          /\ dev' = dev_sample(dev, f, i, np)
          /\ obs' = obs_sample(obs, f, np)
    /\ UNCHANGED <<build, pc, gain, console, cfgCalls, iterCalls>>

Configure ==
    \/ main_begin
    \/ main_halt
    \/ main_getID
    \/ configureSensor_setGain
    \/ configureSensor_setTiming
    \/ configureSensor_getGain

Program ==
    \/ Configure
    \/ configureSensor_clearInterrupt
    \/ configureSensor_registerInterrupt
    \/ advancedRead
    \/ getStatus_read
    \/ getStatus_clear
    \/ main_sleep

Next == Program \/ Sample

Spec == Init /\ [][Next]_vars

\* the thread is never descheduled for good and every driver call returns
FairSpec == Spec /\ WF_vars(Program)

\* configureSensor with any gain and integration time of the driver's enumerations
InitConfigure ==
    /\ InitCommon
    /\ cfgGain \in Gains
    /\ cfgTiming \in Timings
    /\ cfgPersist = TLS2591_INT_PERSIST

SpecConfigure == InitConfigure /\ [][Configure]_vars

\* the interrupt example with any of the persistence values it names
InitPersist ==
    /\ InitCommon
    /\ cfgGain = "TSL2591_GAIN_MED"
    /\ cfgTiming = "TSL2591_INTEGRATIONTIME_100MS"
    /\ cfgPersist \in Persists

SpecPersist == InitPersist /\ [][Next]_vars


\* ------------------------------------------------------------------ claims

\* C1: when the handshake tsl.begin(i2c) fails, the program halts: begin is
\* the only driver call ever issued, no line but "No sensor found" is printed,
\* and the thread stays in while (1); for good.
C1_HaltOnHandshakeFailure ==
    (~present /\ pc # "start") =>
        /\ pc = "halt"
        /\ cfgCalls = <<"begin">>
        /\ iterCalls = <<>>
        /\ console = NoSensorLine
        /\ ~dev.enabled

C1_Witness == ~present /\ pc = "halt" /\ cfgCalls = <<"begin">>

\* C2: a status read reports exactly the bit pattern latched in the device
\* when it reads, and a read with no interrupt latched since the read before
\* it reports a zero status, the read before it having cleared the device.
C2_StatusReadThenCleared ==
    [][(pc = "gs_read" /\ pc' = "gs_clear") =>
          /\ console'.kind = "status"
          /\ console'.status = dev.status
          /\ console'.als = HasBit(dev.status, STATUS_ALS)
          /\ console'.np = HasBit(dev.status, STATUS_NP)
          /\ (~obs.newLatch => console'.status = 0)]_vars

C2_Witness ==
    /\ pc = "gs_clear"
    /\ console.kind = "status"
    /\ console.status = 0
    /\ obs.prevHit
    /\ ~obs.lastHit

\* C3 as claimed: with full < ir the visible value reported is the 16-bit
\* wraparound (full - ir) mod 2^16, 65036 for ir = 1000 and full = 500.
C3_VisibleWraps ==
    (console.kind = "reading" /\ console.full < console.ir) =>
        console.visible = (console.full - console.ir) % 65536

\* C3 as amended: with full < ir the visible value reported is the negative
\* difference full - ir, -500 for ir = 1000 and full = 500.
C3_VisibleNegative ==
    (console.kind = "reading" /\ console.full < console.ir) =>
        /\ console.visible < 0
        /\ console.visible + console.ir = console.full
        /\ (console.ir = 1000 /\ console.full = 500 => console.visible = -500)

C3_Witness ==
    /\ console.kind = "reading"
    /\ console.ir = 1000
    /\ console.full = 500
    /\ console.visible = -500

\* C4: advancedRead reports the high 16 bits of the combined reading as
\* infrared and the low 16 bits as full spectrum, hands (full, ir) in that
\* order to calculateLux and, when full >= ir, reports visible = full - ir.
C4_SplitReading ==
    [][(pc = "loop" /\ pc' # "loop") =>
          /\ console'.kind = "reading"
          /\ console'.ir \in 0..65535
          /\ console'.full \in 0..65535
          /\ console'.ir * 65536 + console'.full = tsl_getFullLuminosity(dev)
          /\ console'.luxFull = console'.full
          /\ console'.luxIr = console'.ir
          /\ (console'.full >= console'.ir =>
                 console'.visible = console'.full - console'.ir)]_vars

C4_Witness ==
    /\ console.kind = "reading"
    /\ console.ir = 1000
    /\ console.full = 1500
    /\ console.visible = 500
    /\ console.luxFull = 1500
    /\ console.luxIr = 1000

\* C5: once the interrupt is programmed with the window 100..1500 and a
\* persistence, the ALS interrupt bit is set in the device, and shown by a
\* status read, exactly when a run of that many consecutive full-spectrum
\* samples outside the window has completed since the previous clearInterrupt.
C5_PersistenceLatch ==
    /\ [](Registered => (HasBit(dev.status, STATUS_ALS) <=> obs.runSeen))
    /\ [][(pc = "gs_read" /\ pc' = "gs_clear") => (console'.als <=> obs.runSeen)]_vars

C5_Witness ==
    /\ pc = "gs_clear"
    /\ cfgPersist = "TSL2591_PERSIST_60"
    /\ console.kind = "status"
    /\ console.als
    /\ obs.runLen >= 60

\* C6: for every gain and integration time, the gain configureSensor reads
\* back after setGain and setTiming, and prints, is the gain it has set.
C6_Multiplier ==
    [g \in Gains |-> IF g = "TSL2591_GAIN_LOW" THEN 1
                     ELSE IF g = "TSL2591_GAIN_MED" THEN 25
                     ELSE IF g = "TSL2591_GAIN_HIGH" THEN 428 ELSE 9876]

C6_GainReadBack ==
    console.kind = "gain" =>
        /\ gain = cfgGain
        /\ dev.timing = cfgTiming
        /\ console.mult = C6_Multiplier[cfgGain]

C6_Witness ==
    /\ console.kind = "gain"
    /\ cfgGain = "TSL2591_GAIN_MAX"
    /\ cfgTiming = "TSL2591_INTEGRATIONTIME_600MS"
    /\ console.mult = 9876

C8_IterationOrder ==
    prog = "tsl2591_int" =>
        /\ pc = "gs_read" => iterCalls = <<"getFullLuminosity", "calculateLux">>
        /\ pc = "gs_clear" =>
               iterCalls = <<"getFullLuminosity", "calculateLux", "getStatus">>
        /\ pc = "sleep" =>
               iterCalls = <<"getFullLuminosity", "calculateLux", "getStatus",
                             "clearInterrupt">>
        /\ pc = "loop" =>
               iterCalls \in {<<>>, <<"getFullLuminosity", "calculateLux", "getStatus",
                                      "clearInterrupt", "thread_sleep_for">>}

C8_PollingLoop ==
    /\ []C8_IterationOrder
    /\ (prog = "tsl2591_int" /\ pc \in LoopPcs) ~> (pc = "gs_read")

C8_Witness ==
    /\ prog = "tsl2591_int"
    /\ pc = "loop"
    /\ iterCalls = <<"getFullLuminosity", "calculateLux", "getStatus",
                     "clearInterrupt", "thread_sleep_for">>

\* C9: configuration happens once, in order, before the first poll, and no
\* step of the polling loop changes the configured gain, integration time,
\* thresholds or persistence.
C9_ConfiguredOnce ==
    /\ pc \notin LoopPcs => iterCalls = <<>>
    /\ (pc \in LoopPcs /\ prog = "tsl2591") =>
          /\ cfgCalls = <<"begin", "setGain", "setTiming", "getGain">>
          /\ dev.gain = cfgGain
          /\ dev.timing = cfgTiming
          /\ ~dev.aien
    /\ (pc \in LoopPcs /\ prog = "tsl2591_int") =>
          /\ cfgCalls = <<"begin", "getID", "setGain", "setTiming", "getGain",
                          "clearInterrupt", "registerInterrupt">>
          /\ dev.gain = cfgGain
          /\ dev.timing = cfgTiming
          /\ dev.aien
          /\ dev.lower = TLS2591_INT_THRESHOLD_LOWER
          /\ dev.upper = TLS2591_INT_THRESHOLD_UPPER
          /\ dev.persist = cfgPersist

C9_Witness ==
    /\ prog = "tsl2591_int"
    /\ pc = "loop"
    /\ Len(iterCalls) = 5
    /\ dev.persist = "TSL2591_PERSIST_60"
    /\ dev.gain = "TSL2591_GAIN_MED"

\* C10 as claimed: no latched threshold interrupt is lost; the clearInterrupt
\* of getStatus erases the ALS interrupt bit only if the status read of the
\* same call has reported it.
C10_NoInterruptLost ==
    [][(pc = "gs_clear" /\ pc' = "sleep") =>
          (HasBit(dev.status, STATUS_ALS) => console.als)]_vars

====
